---- MODULE Spec2Model ----
(***************************************************************************)
(* View orchestration and transition state machine of the game's main.py.  *)
(*                                                                         *)
(* The state is the Game object's fields plus the position of the two      *)
(* coroutines that share the asyncio event loop: Game.run (pc) and the     *)
(* loader tasks created by handle_transition (tasks).  One iteration of    *)
(* the loop in Game.run is the sequence                                    *)
(*   poll  : events = pygame.event.get(); await asyncio.sleep(0), where a  *)
(*           ready loader task runs; transition_screen and                 *)
(*           handle_transition() -> render, continue; else the for-loop    *)
(*           over the polled events                                        *)
(*   view  : current_view.handle_events(events), during which the view     *)
(*           calls the callbacks it was constructed with (switch_view,     *)
(*           toggle_fullscreen, return_to_game), then update/draw/tick.    *)
(* LoadingScreen and the view classes are not part of the examined source  *)
(* files; the operators that stand for them follow the written design.     *)
(***************************************************************************)
EXTENDS Integers, Sequences, FiniteSets, TLC

VARIABLES pc, running, display_open, events,
          WIDTH, HEIGHT, fullscreen, windowed_size,
          current_view, saved_game_view,
          transition_screen, pending_view, has_load_task, tasks,
          mouse_visible, mouse_blocked,
          handler, calls,
          beforeEmbed, restoreOf, sizeBeforeFs,
          ticks, clock_pc, last_time, dt, update_dt, since_frame, frame_elapsed,
          player

(***************************************************************************)
(* beforeEmbed, restoreOf and sizeBeforeFs record history and are read by  *)
(* no action:                                                              *)
(*   beforeEmbed  the view that was current before switch_view(            *)
(*                "ingame_settings"), while that is the latest callback    *)
(*   restoreOf    beforeEmbed as it was when return_to_game was called,    *)
(*                while return_to_game is the latest callback              *)
(*   sizeBeforeFs (WIDTH, HEIGHT) at the latest entry into fullscreen,     *)
(*                until a resize arrives in windowed mode                  *)
(***************************************************************************)
loopVars == <<pc, running, display_open, events>>
geomVars == <<WIDTH, HEIGHT, fullscreen, windowed_size>>
viewVars == <<current_view, saved_game_view>>
transVars == <<transition_screen, pending_view, has_load_task, tasks>>
inputVars == <<mouse_visible, mouse_blocked>>
cbVars == <<handler, calls>>
histVars == <<beforeEmbed, restoreOf, sizeBeforeFs>>
gameVars == <<loopVars, geomVars, viewVars, transVars, inputVars, cbVars, histVars>>

(***************************************************************************)
(* The frame clock of Game.run:                                            *)
(*   ticks         what get_ticks() returns now, whole milliseconds        *)
(*   clock_pc      where run is: "start" before it reads the clock, "read" *)
(*                 at the top of the loop, "await" suspended at            *)
(*                 asyncio.sleep(0), after the read and before the views   *)
(*   last_time, dt the locals of Game.run, floats in seconds (the code     *)
(*                 divides every read by 1000.0)                           *)
(*   update_dt     the argument of the current_view.update call of the     *)
(*                 latest iteration, NoDt when it made none (yet)          *)
(*   since_frame   milliseconds gone by since the latest read of the clock *)
(*   frame_elapsed since_frame as the latest iteration found it            *)
(* since_frame and frame_elapsed record history and are read by no action. *)
(* The frame clock has a specification of its own, ClockSpec; the actions  *)
(* of Spec leave it alone.                                                 *)
(***************************************************************************)
clockVars == <<ticks, clock_pc, last_time, dt, update_dt, since_frame, frame_elapsed>>

(***************************************************************************)
(* player is the Player object of player.py, a record of its attributes    *)
(* (animation_frames maps each animation name to its number of frames, 0   *)
(* when the key is absent; rect is not followed), with                     *)
(*   built   __init__ has run                                              *)
(*   raised  the exception that left a method of the object, "NoReturn"    *)
(*           when a method's loop never ends, "None" otherwise             *)
(*   updates the update calls made so far; only the bound MaxUpdates reads *)
(*           it                                                            *)
(* animation_timer and the values of animation_speeds are floats.          *)
(* The player has a specification of its own, PlayerSpec.                  *)
(***************************************************************************)
sideVars == <<clockVars, player>>
vars == <<gameVars, sideVars>>

(***************************************************************************)
(* Bounds of the model.                                                    *)
(***************************************************************************)
\* events returned by one pygame.event.get()
MaxEvents == 1
\* callbacks one handle_events call makes
MaxCalls == 2

(***************************************************************************)
(* Values.                                                                 *)
(***************************************************************************)
\* const.width, const.height: the design size and the initial window size
DesignSize == <<800, 600>>
\* sizes a VIDEORESIZE event may carry
ResizeSizes == {<<800, 600>>, <<1024, 768>>}
\* what window.get_size() reports after set_mode((0, 0), FULLSCREEN)
FullscreenSize == <<1920, 1080>>
NoSize == <<0, 0>>
\* no float: last_time before run reads the clock, dt before the first
\* iteration, update_dt when no update call was made (no float has magnitude 0
\* and this sign)
NoDt == [neg |-> TRUE, mag |-> <<0, 0, 0>>]

\* the alpha change of one LoadingScreen.update_fade call
FadeStep == 5
MaxAlpha == 255
\* total_steps of load_game_resources
TotalSteps == 5
StepPercent == 20

\* current_view / saved_game_view: None, or absent attribute
NoView == [id |-> 0, kind |-> "None", ingame |-> FALSE, layout |-> NoSize]
\* transition_screen = None
NoScreen == [id |-> 0, alpha |-> 0, active |-> FALSE, progress |-> 0,
             width |-> 0, height |-> 0]

ViewIds == 1..3

\* no handle_events call is running
NoHandler == [kind |-> "None", ingame |-> FALSE]

EventValues == {[type |-> "QUIT", size |-> NoSize]}
                 \cup {[type |-> "VIDEORESIZE", size |-> s] : s \in ResizeSizes}

RECURSIVE SeqsUpTo(_, _)
SeqsUpTo(S, n) ==
    IF n = 0 THEN {<<>>}
    ELSE LET shorter == SeqsUpTo(S, n - 1)
         IN shorter \cup {Append(q, e) : q \in {x \in shorter : Len(x) = n - 1}, e \in S}

\* what one pygame.event.get() may return
EventLists == SeqsUpTo(EventValues, MaxEvents)

(***************************************************************************)
(* Object identity: a newly constructed view is distinct from every view   *)
(* the Game still references.                                              *)
(***************************************************************************)
FreshViewId(cur, saved) ==
    CHOOSE i \in ViewIds : i \notin {cur.id, saved.id}
                           /\ \A j \in ViewIds : j \notin {cur.id, saved.id} => i <= j

FreshScreenId(old) == IF old.id = 1 THEN 2 ELSE 1

(***************************************************************************)
(* LoadingScreen, as the design describes the transition controller.       *)
(***************************************************************************)
NewLoadingScreen(id, w, h) ==
    [id |-> id, alpha |-> 0, active |-> TRUE, progress |-> 0, width |-> w, height |-> h]

Min(a, b) == IF a < b THEN a ELSE b
Max(a, b) == IF a > b THEN a ELSE b

\* a fade step without the clamp at 255
UpdateFadeUnclamped(ts) ==
    IF ts.active
    THEN [ts EXCEPT !.alpha = ts.alpha + FadeStep]
    ELSE [ts EXCEPT !.alpha = Max(0, ts.alpha - FadeStep)]

UpdateFade(ts) ==
    IF ts.active
    THEN [ts EXCEPT !.alpha = Min(MaxAlpha, ts.alpha + FadeStep)]
    ELSE [ts EXCEPT !.alpha = Max(0, ts.alpha - FadeStep)]

UpdateProgress(ts, p) == [ts EXCEPT !.progress = p]

UpdateScreenSize(ts, w, h) == [ts EXCEPT !.width = w, !.height = h]

(***************************************************************************)
(* Views.                                                                  *)
(***************************************************************************)
NewView(id, kind, ingame) == [id |-> id, kind |-> kind, ingame |-> ingame, layout |-> NoSize]

\* view.handle_resize(w, h)
ViewHandleResize(v, w, h) == [v EXCEPT !.layout = <<w, h>>]

\* Game.handle_resize: forwards the window size to the current view, if any
HandleResize(v, w, h) == IF v.id # 0 THEN ViewHandleResize(v, w, h) ELSE v

IsGameView(v) == v.kind = "GameView"

(***************************************************************************)
(* Python floats (IEEE 754 binary64) as player.py computes with them:      *)
(* times in seconds.  A float is [neg, mag]: its sign and its magnitude in *)
(* units of 2^-62 s, written as three digits of base 2^21, most            *)
(* significant first.  The magnitudes are those below 2 s that are whole   *)
(* numbers of units: 0, every float of at least 2^-10 s (0.001, 0.02, 0.1, *)
(* ...) and every sum and difference of such floats before it is rounded.  *)
(* A result is rounded to 53 significant bits, ties to even; below 2^-9 s  *)
(* a whole number of units has at most 53 bits and is a float as it is.    *)
(***************************************************************************)
FDigit == 2^21

\* 0.0, and the int 0 that __init__ gives animation_timer
FZero == [neg |-> FALSE, mag |-> <<0, 0, 0>>]

\* the number of binary digits of n
RECURSIVE BitLength(_)
BitLength(n) == IF n = 0 THEN 0 ELSE 1 + BitLength(n \div 2)

MagLess(a, b) ==
    \/ a[1] < b[1]
    \/ a[1] = b[1] /\ a[2] < b[2]
    \/ a[1] = b[1] /\ a[2] = b[2] /\ a[3] < b[3]

\* a + b, not rounded
MagAdd(a, b) ==
    LET l == a[3] + b[3]
        m == a[2] + b[2] + (l \div FDigit)
    IN <<a[1] + b[1] + (m \div FDigit), m % FDigit, l % FDigit>>

\* a - b for a >= b, not rounded
MagSub(a, b) ==
    LET l == a[3] - b[3]
        bl == IF l < 0 THEN 1 ELSE 0
        m == a[2] - b[2] - bl
        bm == IF m < 0 THEN 1 ELSE 0
    IN <<a[1] - b[1] - bm, m + bm * FDigit, l + bl * FDigit>>

\* the float nearest to mag + num/den units (0 <= num < den), ties to even: the
\* first digit holds bits 42 and up, so a magnitude of more than 53 bits loses
\* its lowest BitLength(mag[1]) - 11 bits
RoundToFloat(mag, num, den) ==
    LET unit == 2^(IF BitLength(mag[1]) > 11 THEN BitLength(mag[1]) - 11 ELSE 0)
        r == mag[3] % unit
        down == <<mag[1], mag[2], mag[3] - r>>
        up == MagAdd(down, <<0, 0, unit>>)
        twice == 2 * (r * den + num)
    IN IF twice < unit * den THEN down
       ELSE IF twice > unit * den THEN up
       ELSE IF (mag[3] \div unit) % 2 = 1 THEN up
       ELSE down

\* the float of a literal or an argument of ms thousandths of a second (0.1 is
\* Seconds(100)), -1000 < ms < 1000: ms * 2^62 / 1000 by long division, rounded
Seconds(ms) ==
    LET n == IF ms < 0 THEN -ms ELSE ms
        top == n * 2^20
        r1 == (top % 1000) * FDigit
        r2 == (r1 % 1000) * FDigit
    IN [neg |-> ms < 0,
        mag |-> RoundToFloat(<<top \div 1000, r1 \div 1000, r2 \div 1000>>, r2 % 1000, 1000)]

FNeg(a) == IF a.mag = FZero.mag THEN a ELSE [a EXCEPT !.neg = ~a.neg]

\* a < b
FLess(a, b) ==
    IF a.neg # b.neg THEN a.neg
    ELSE IF a.neg THEN MagLess(b.mag, a.mag)
    ELSE MagLess(a.mag, b.mag)

\* a + b
FAdd(a, b) ==
    IF a.neg = b.neg THEN [neg |-> a.neg, mag |-> RoundToFloat(MagAdd(a.mag, b.mag), 0, 1)]
    ELSE IF a.mag = b.mag THEN FZero
    ELSE IF MagLess(a.mag, b.mag)
    THEN [neg |-> b.neg, mag |-> RoundToFloat(MagSub(b.mag, a.mag), 0, 1)]
    ELSE [neg |-> a.neg, mag |-> RoundToFloat(MagSub(a.mag, b.mag), 0, 1)]

\* a - b
FSub(a, b) == FAdd(a, FNeg(b))

\* max(a, b)
FMax(a, b) == IF FLess(a, b) THEN b ELSE a

(***************************************************************************)
(* Player (player.py): values.                                             *)
(***************************************************************************)
\* frames one animation directory may hold
MaxFrames == 2

\* the keys of Game.animation_paths
AnimNames == {"idle", "walking", "attack"}

\* pygame.math.Vector2 values given to move
Directions == {<<0, 0>>, <<1, 0>>, <<-1, 0>>, <<0, 1>>}

\* update calls followed on one Player: the floats animation_timer takes have
\* no small bound, each period of an animation leaves a different rounding
\* error in it
MaxUpdates == 2

\* dt values given to update: 0.02 and 0.25 s
UpdateDts == {Seconds(20), Seconds(250)}

\* speeds given to set_animation_speed and set_all_animation_speeds: -0.04, 0
\* and 0.04 s
SpeedValues == {Seconds(-40), Seconds(0), Seconds(40)}

\* animation_speeds as __init__ sets it: 0.1, 0.08 and 0.05 s
InitialSpeeds ==
    [n \in AnimNames |-> IF n = "walking" THEN Seconds(80)
                         ELSE IF n = "attack" THEN Seconds(50) ELSE Seconds(100)]

NoImage == [anim |-> "none", frame |-> 0, flipped |-> FALSE]
\* the magenta surface __init__ makes when there is no idle animation
FallbackImage == [anim |-> "fallback", frame |-> 0, flipped |-> FALSE]

\* animation_frames[anim][frame]['original' or 'flipped']
FrameImage(anim, frame, facing_right) ==
    [anim |-> anim, frame |-> frame, flipped |-> ~facing_right]

\* the object before __init__
NoPlayer ==
    [built |-> FALSE, animation_frames |-> [n \in AnimNames |-> 0],
     current_animation |-> "idle", frame_index |-> 0, animation_timer |-> FZero,
     direction |-> <<0, 0>>, facing_right |-> TRUE, image |-> NoImage, raised |-> "None",
     animation_speeds |-> InitialSpeeds, updates |-> 0]

Init ==
    /\ pc = "poll"
    /\ running = TRUE
    /\ display_open = TRUE
    /\ events = <<>>
    /\ WIDTH = DesignSize[1]
    /\ HEIGHT = DesignSize[2]
    /\ fullscreen = FALSE
    /\ windowed_size = DesignSize
    /\ current_view = ViewHandleResize(NewView(1, "MainMenu", FALSE), DesignSize[1], DesignSize[2])
    /\ saved_game_view = NoView
    /\ transition_screen = NoScreen
    /\ pending_view = "None"
    /\ has_load_task = FALSE
    /\ tasks = <<>>
    /\ mouse_visible = TRUE
    /\ mouse_blocked = FALSE
    /\ handler = NoHandler
    /\ calls = 0
    /\ beforeEmbed = NoView
    /\ restoreOf = NoView
    /\ sizeBeforeFs = NoSize
    /\ ticks = 0
    /\ clock_pc = "start"
    /\ last_time = NoDt
    /\ dt = NoDt
    /\ update_dt = NoDt
    /\ since_frame = 0
    /\ frame_elapsed = 0
    /\ player = NoPlayer

(***************************************************************************)
(* Game.load_game_resources                                                *)
(***************************************************************************)
\* a task made by asyncio.create_task; pos counts the pauses it has begun
NewTask(owner) == [pos |-> 0, owner |-> owner]

RemoveAt(q, i) == [j \in 1..(Len(q) - 1) |-> IF j < i THEN q[j] ELSE q[j + 1]]

\* the GameView load_game_resources constructs; no handle_resize follows
LoadedGameView(cur, saved) == NewView(FreshViewId(cur, saved), "GameView", FALSE)

\* a loader that reports i * 20
StepProgressFromZero(k) == (k - 1) * StepPercent

\* progress reported by the loader after its k-th pause
StepProgress(k) == k * StepPercent

\* the loader has not called render_transition
NotShown == -1

\* a loader that stops one step early
IsLastStepEarly(k) == k >= TotalSteps - 1

\* for i in range(total_steps): the k-th pause is the last one
IsLastStep(k) == k >= TotalSteps

\* One resumption of task i, from one await to the next or to the end.
\* st holds the fields the loader reads and writes: [ts, view, visible, blocked, tasks],
\* and shown, the progress its render_transition call has put on the display
LoaderResume(st, i, saved) ==
    LET t == st.tasks[i] IN
    IF t.pos = 0
    THEN \* first run: up to the first await asyncio.sleep(0.3)
         [st EXCEPT !.tasks[i].pos = 1]
    ELSE IF st.ts.id = 0
    THEN \* None has no update_progress: the task ends with AttributeError
         [st EXCEPT !.tasks = RemoveAt(st.tasks, i)]
    ELSE IF ~IsLastStep(t.pos)
    THEN \* update_progress, then render_transition draws the controller
         [st EXCEPT !.ts = UpdateProgress(st.ts, StepProgress(t.pos)),
                    !.shown = UpdateProgress(st.ts, StepProgress(t.pos)).progress,
                    !.tasks[i].pos = t.pos + 1]
    ELSE [ts |-> [UpdateProgress(st.ts, StepProgress(t.pos)) EXCEPT !.active = FALSE],
          shown |-> UpdateProgress(st.ts, StepProgress(t.pos)).progress,
          view |-> LoadedGameView(st.view, saved),
          visible |-> FALSE,
          blocked |-> TRUE,
          tasks |-> RemoveAt(st.tasks, i)]

(***************************************************************************)
(* Game.handle_transition                                                  *)
(***************************************************************************)
\* a handle_transition that creates the task without the presence check
LoadTaskGuardMissing(has) == TRUE

\* not hasattr(self, 'load_task')
LoadTaskGuard(has) == ~has

\* a handle_transition that keeps the load_task attribute when it drops the
\* controller
LoadTaskKept(has) == has

\* del self.load_task
LoadTaskAfterDiscard(has) == FALSE

\* a handle_transition that ignores the pending marker
DrivesTransitionAlways(pending) == TRUE

\* a handle_transition that tests for a marker switch_view never sets
DrivesTransitionNever(pending) == pending = "Game"

\* self.pending_view == "game"
DrivesTransition(pending) == pending = "game"

\* the result of handle_transition: the fields it writes and what it returns
HandleTransition(ts, pending, has, tq) ==
    IF ~DrivesTransition(pending)
    THEN [ts |-> ts, pending |-> pending, has |-> has, tasks |-> tq, ret |-> "None"]
    ELSE LET f == UpdateFade(ts) IN
         IF f.active
         THEN IF f.alpha < MaxAlpha
              THEN [ts |-> f, pending |-> pending, has |-> has, tasks |-> tq, ret |-> "True"]
              ELSE IF LoadTaskGuard(has)
                   THEN [ts |-> f, pending |-> pending, has |-> TRUE,
                         tasks |-> Append(tq, NewTask(f.id)), ret |-> "True"]
                   ELSE [ts |-> f, pending |-> pending, has |-> has, tasks |-> tq, ret |-> "True"]
         ELSE IF f.alpha > 0
              THEN [ts |-> f, pending |-> pending, has |-> has, tasks |-> tq, ret |-> "True"]
              ELSE IF has
                   THEN [ts |-> NoScreen, pending |-> "None",
                         has |-> LoadTaskAfterDiscard(has), tasks |-> tq, ret |-> "False"]
                   ELSE \* del self.load_task without the attribute
                        [ts |-> NoScreen, pending |-> "None", has |-> FALSE, tasks |-> tq,
                         ret |-> "AttributeError"]

\* a loop that never looks at the transition
TransitionCheckSkipped(ts, pending, has, tq) ==
    [ts |-> ts, pending |-> pending, has |-> has, tasks |-> tq, ret |-> "None"]

\* self.transition_screen and self.handle_transition()
TransitionCheck(ts, pending, has, tq) ==
    IF ts.id = 0
    THEN [ts |-> ts, pending |-> pending, has |-> has, tasks |-> tq, ret |-> "None"]
    ELSE HandleTransition(ts, pending, has, tq)

(***************************************************************************)
(* The for-loop over the polled events in Game.run                         *)
(***************************************************************************)
\* a resize handler without the fullscreen test
ResizeAppliesAlways(fs) == TRUE

\* if not self.fullscreen
ResizeApplies(fs) == ~fs

\* the state after one event: [running, w, h, ws, view]
ProcessEvent(st, e, fs) ==
    IF e.type = "QUIT"
    THEN [st EXCEPT !.running = FALSE]
    ELSE IF e.type = "VIDEORESIZE" /\ ResizeApplies(fs)
    THEN [st EXCEPT !.w = e.size[1], !.h = e.size[2], !.ws = e.size,
                    !.view = HandleResize(st.view, e.size[1], e.size[2])]
    ELSE st

RECURSIVE ProcessAll(_, _, _)
ProcessAll(st, es, fs) ==
    IF es = <<>> THEN st ELSE ProcessAll(ProcessEvent(st, Head(es), fs), Tail(es), fs)

\* the saved GameView is the same object as the current view after return_to_game
SyncSaved(saved, cur) == IF saved.id # 0 /\ saved.id = cur.id THEN cur ELSE saved

HasResize(es) == \E i \in 1..Len(es) : es[i].type = "VIDEORESIZE"

\* the size carried by the last VIDEORESIZE of es
LastResize(es) ==
    LET i == CHOOSE k \in 1..Len(es) :
                 es[k].type = "VIDEORESIZE"
                 /\ \A m \in (k + 1)..Len(es) : es[m].type # "VIDEORESIZE"
    IN es[i].size

(***************************************************************************)
(* One iteration of the while loop of Game.run, up to the call of          *)
(* current_view.handle_events: poll the events, await asyncio.sleep(0)     *)
(* (loader task y is resumed there; y = 0 when none is ready), then either *)
(* drive the transition, render it and continue, or run the event loop and *)
(* enter handle_events.  Between its awaits a coroutine runs alone, so the *)
(* only interleaving is the loader's resumption at the await.  events is   *)
(* the local list of Game.run while it is in use, and empty otherwise.     *)
(***************************************************************************)
\* the fields the loader reads and writes, as they are at the await
AtAwait ==
    [ts |-> transition_screen, view |-> current_view, visible |-> mouse_visible,
     blocked |-> mouse_blocked, tasks |-> tasks, shown |-> NotShown]

IterationWith(y, es) ==
    /\ pc = "poll"
    /\ \E a \in {IF y = 0 THEN AtAwait ELSE LoaderResume(AtAwait, y, saved_game_view)} :
       \E tr \in {TransitionCheck(a.ts, pending_view, has_load_task, a.tasks)} :
         /\ transition_screen' = tr.ts
         /\ pending_view' = tr.pending
         /\ has_load_task' = tr.has
         /\ tasks' = tr.tasks
         /\ mouse_visible' = a.visible
         /\ mouse_blocked' = a.blocked
         /\ IF tr.ret = "True"
            THEN \* render_transition(); continue: the polled events are dropped
                 /\ pc' = "poll"
                 /\ events' = <<>>
                 /\ current_view' = a.view
                 /\ UNCHANGED <<running, geomVars, saved_game_view, handler, sizeBeforeFs>>
            ELSE IF tr.ret = "AttributeError"
            THEN \* the exception leaves Game.run
                 /\ pc' = "crashed"
                 /\ events' = <<>>
                 /\ current_view' = a.view
                 /\ UNCHANGED <<running, geomVars, saved_game_view, handler, sizeBeforeFs>>
            ELSE \E ev \in {ProcessAll([running |-> running, w |-> WIDTH, h |-> HEIGHT,
                                        ws |-> windowed_size, view |-> a.view],
                                       es, fullscreen)} :
                 /\ pc' = "view"
                 /\ events' = es
                 /\ running' = ev.running
                 /\ WIDTH' = ev.w
                 /\ HEIGHT' = ev.h
                 /\ windowed_size' = ev.ws
                 /\ current_view' = ev.view
                 /\ saved_game_view' = SyncSaved(saved_game_view, ev.view)
                 \* current_view.handle_events(events) starts
                 /\ handler' = [kind |-> ev.view.kind, ingame |-> ev.view.ingame]
                 /\ sizeBeforeFs' = IF ~fullscreen /\ HasResize(es)
                                    THEN NoSize ELSE sizeBeforeFs
                 /\ UNCHANGED fullscreen
    /\ UNCHANGED <<display_open, calls, beforeEmbed, restoreOf, sideVars>>

Iteration(y) == \E es \in EventLists : IterationWith(y, es)

\* no loader task is resumed at the await
LoopIteration == Iteration(0)

\* a loader task whose pause has elapsed is resumed at the await
LoopIterationWithLoader == \E y \in 1..Len(tasks) : Iteration(y)

(***************************************************************************)
(* Game.switch_view, called by the view that is handling the events        *)
(***************************************************************************)
ViewNames == {"main", "game", "settings", "ingame_settings", "exit"}

InCallback == pc = "view" /\ calls < MaxCalls

\* lines 98-99: the current view is stored only if it is a GameView
SavedOnEmbed(cur, saved) == IF IsGameView(cur) THEN cur ELSE saved

\* the view switch_view installs for a menu request, before handle_resize
MenuView(name, cur, saved) ==
    IF name = "main" THEN NewView(FreshViewId(cur, saved), "MainMenu", FALSE)
    ELSE IF name = "settings" THEN NewView(FreshViewId(cur, saved), "Settings", FALSE)
    ELSE NewView(FreshViewId(cur, SavedOnEmbed(cur, saved)), "Settings", TRUE)

\* a switch_view("game") that keeps the controller it finds
ScreenKeptOnSwitch(name, ts, w, h) == ts

\* the transition_screen field after switch_view(name)
ScreenAfterSwitch(name, ts, w, h) ==
    IF name = "game" THEN NewLoadingScreen(FreshScreenId(ts), w, h) ELSE ts

\* the pending_view field after switch_view(name)
PendingAfterSwitch(name) == IF name = "game" THEN "game" ELSE "None"

SwitchViewMenu(name) ==
    /\ InCallback
    /\ name \in {"main", "settings", "ingame_settings"}
    /\ mouse_visible' = TRUE
    /\ mouse_blocked' = FALSE
    /\ saved_game_view' = IF name = "ingame_settings"
                          THEN SavedOnEmbed(current_view, saved_game_view)
                          ELSE saved_game_view
    /\ current_view' = HandleResize(MenuView(name, current_view, saved_game_view), WIDTH, HEIGHT)
    /\ pending_view' = PendingAfterSwitch(name)
    /\ transition_screen' = ScreenAfterSwitch(name, transition_screen, WIDTH, HEIGHT)
    /\ calls' = calls + 1
    /\ beforeEmbed' = IF name = "ingame_settings" THEN current_view ELSE NoView
    /\ restoreOf' = NoView
    /\ UNCHANGED <<loopVars, geomVars, has_load_task, tasks, handler, sizeBeforeFs, sideVars>>

SwitchViewGame ==
    /\ InCallback
    /\ pending_view' = PendingAfterSwitch("game")
    /\ transition_screen' = ScreenAfterSwitch("game", transition_screen, WIDTH, HEIGHT)
    /\ current_view' = HandleResize(current_view, WIDTH, HEIGHT)
    /\ saved_game_view' = SyncSaved(saved_game_view, current_view')
    /\ calls' = calls + 1
    /\ beforeEmbed' = NoView
    /\ restoreOf' = NoView
    /\ UNCHANGED <<loopVars, geomVars, has_load_task, tasks, inputVars, handler, sizeBeforeFs,
                   sideVars>>

\* pygame.quit(); exit()
SwitchViewExit ==
    /\ InCallback
    /\ display_open' = FALSE
    /\ pc' = "done"
    /\ calls' = calls + 1
    /\ beforeEmbed' = NoView
    /\ restoreOf' = NoView
    /\ UNCHANGED <<running, events, geomVars, viewVars, transVars, inputVars, handler,
                   sizeBeforeFs, sideVars>>

(***************************************************************************)
(* Game.toggle_fullscreen, given to the standalone Settings view only      *)
(***************************************************************************)
\* a toggle that stores the current size in both directions
WindowedAfterToggleBoth(fs, w, h, ws) == <<w, h>>

\* the size kept in windowed_size when fullscreen is switched
WindowedAfterToggle(fs, w, h, ws) == IF ~fs THEN <<w, h>> ELSE ws

\* a toggle that keeps the fullscreen resolution when it leaves fullscreen
SizeAfterToggleStuck(fs, w, h, ws) == FullscreenSize

\* (WIDTH, HEIGHT) after the toggle
SizeAfterToggle(fs, w, h, ws) == IF ~fs THEN FullscreenSize ELSE WindowedAfterToggle(fs, w, h, ws)

ToggleFullscreen ==
    /\ InCallback
    /\ handler.kind = "Settings" /\ ~handler.ingame
    /\ fullscreen' = ~fullscreen
    /\ windowed_size' = WindowedAfterToggle(fullscreen, WIDTH, HEIGHT, windowed_size)
    /\ LET sz == SizeAfterToggle(fullscreen, WIDTH, HEIGHT, windowed_size) IN
         /\ WIDTH' = sz[1]
         /\ HEIGHT' = sz[2]
         /\ current_view' = HandleResize(current_view, sz[1], sz[2])
         /\ transition_screen' = IF transition_screen.id # 0
                                 THEN UpdateScreenSize(transition_screen, sz[1], sz[2])
                                 ELSE transition_screen
    /\ saved_game_view' = SyncSaved(saved_game_view, current_view')
    /\ calls' = calls + 1
    /\ beforeEmbed' = NoView
    /\ restoreOf' = NoView
    /\ sizeBeforeFs' = IF ~fullscreen THEN <<WIDTH, HEIGHT>> ELSE sizeBeforeFs
    /\ UNCHANGED <<loopVars, pending_view, has_load_task, tasks, inputVars, handler, sideVars>>

(***************************************************************************)
(* Game.return_to_game, given to the in-game Settings view only            *)
(***************************************************************************)
\* a return_to_game without the hasattr test
HasSavedGameViewAssumed(saved) == TRUE

\* hasattr(self, 'saved_game_view')
HasSavedGameView(saved) == saved.id # 0

\* a return_to_game that builds a new GameView instead of restoring the saved one
RestoredViewRebuilt(cur, saved) == NewView(FreshViewId(cur, saved), "GameView", FALSE)

\* a return_to_game that leaves the cursor as it is
VisibleKeptOnReturn(visible) == visible

\* pygame.mouse.set_visible(False)
VisibleAfterReturn(visible) == FALSE

\* self.current_view = self.saved_game_view
RestoredView(cur, saved) == saved

ReturnToGame ==
    /\ InCallback
    /\ handler.kind = "Settings" /\ handler.ingame
    /\ IF HasSavedGameView(saved_game_view)
       THEN /\ current_view' = RestoredView(current_view, saved_game_view)
            /\ mouse_visible' = VisibleAfterReturn(mouse_visible)
            /\ mouse_blocked' = TRUE
            /\ pending_view' = "None"
       ELSE UNCHANGED <<current_view, mouse_visible, mouse_blocked, pending_view>>
    /\ calls' = calls + 1
    /\ restoreOf' = beforeEmbed
    /\ beforeEmbed' = NoView
    /\ UNCHANGED <<loopVars, geomVars, saved_game_view, transition_screen, has_load_task, tasks,
                   handler, sizeBeforeFs, sideVars>>

(***************************************************************************)
(* The rest of the iteration: handle_events returns, view.update(dt),      *)
(* Game.update (draw), display.flip, clock.tick; then the while test.      *)
(***************************************************************************)
EndIteration ==
    /\ pc = "view"
    /\ pc' = IF running THEN "poll" ELSE "done"
    /\ display_open' = running
    /\ events' = <<>>
    /\ handler' = NoHandler
    /\ calls' = 0
    /\ UNCHANGED <<running, geomVars, viewVars, transVars, inputVars, histVars, sideVars>>

Next ==
    \/ LoopIteration
    \/ LoopIterationWithLoader
    \/ \E name \in ViewNames : SwitchViewMenu(name)
    \/ SwitchViewGame
    \/ SwitchViewExit
    \/ ToggleFullscreen
    \/ ReturnToGame
    \/ EndIteration

Spec == Init /\ [][Next]_vars

(***************************************************************************)
(* Scheduling: Game.run keeps iterating until it leaves the while loop, and *)
(* a loader task's asyncio.sleep(0.3) elapses, so the task is resumed at    *)
(* one of the loop's later await asyncio.sleep(0).  The views' callbacks    *)
(* are the user's doing and carry no fairness.                             *)
(***************************************************************************)
LoopStep ==
    \/ LoopIteration
    \/ LoopIterationWithLoader
    \/ EndIteration

FairSpec == Spec /\ WF_vars(LoopStep) /\ SF_vars(LoopIterationWithLoader)

(***************************************************************************)
(* The frame clock of Game.run.  run reads the clock once before the loop, *)
(* some time after pygame.init() started it.  Every iteration reads the    *)
(* clock and sets dt and last_time before it looks at the transition, so   *)
(* an iteration that ends with continue moves last_time like any other.    *)
(* Between the read and the views run is suspended once, and time may go   *)
(* by: update receives the dt of the read.                                 *)
(* The reads are divided by 1000.0 and subtracted as floats.  Whether the  *)
(* iteration drives a transition, and whether the current view has an      *)
(* update method, are inputs here.                                         *)
(***************************************************************************)
\* the clock values the model follows
MaxTicks == 10

\* the floor of dt: 0.001 s
DtFloor == 1

\* pygame.time.get_ticks() / 1000.0
CurrentTime(t) == Seconds(t)

\* a loop that passes on the clock difference as it is
FrameDtUnclamped(current_time, last) == FSub(current_time, last)

\* dt = current_time - last_time; dt = max(dt, 0.001)
FrameDt(current_time, last) == FMax(FSub(current_time, last), Seconds(DtFloor))

\* Player.update: dt = max(dt, 0.001), on floats
PlayerDt(d) == FMax(d, Seconds(DtFloor))

\* time passes, before run, between two reads of the clock, or while run is
\* suspended
ClockTick ==
    /\ ticks < MaxTicks
    /\ ticks' = ticks + 1
    /\ since_frame' = since_frame + 1
    /\ UNCHANGED <<clock_pc, last_time, dt, update_dt, frame_elapsed, gameVars, player>>

\* last_time = pygame.time.get_ticks() / 1000.0, before the loop
RunStart ==
    /\ clock_pc = "start"
    /\ clock_pc' = "read"
    /\ last_time' = CurrentTime(ticks)
    /\ since_frame' = 0
    /\ UNCHANGED <<ticks, dt, update_dt, frame_elapsed, gameVars, player>>

\* the top of an iteration, lines 200-211: read the clock, set dt and
\* last_time, poll, and suspend at await asyncio.sleep(0)
FrameRead ==
    /\ clock_pc = "read"
    /\ clock_pc' = "await"
    /\ dt' = FrameDt(CurrentTime(ticks), last_time)
    /\ last_time' = CurrentTime(ticks)
    /\ update_dt' = NoDt
    /\ frame_elapsed' = since_frame
    /\ since_frame' = 0
    /\ UNCHANGED <<ticks, gameVars, player>>

\* the rest of the iteration, lines 214-240, once run is resumed: either
\* continue or, when there is a current view and it has an update method
\* (has_update), current_view.update(dt) with the dt of the read
FrameResume(drives, has_update) ==
    /\ clock_pc = "await"
    /\ clock_pc' = "read"
    /\ update_dt' = IF ~drives /\ has_update THEN dt ELSE NoDt
    /\ UNCHANGED <<ticks, last_time, dt, since_frame, frame_elapsed, gameVars, player>>

FrameContinue == \E has_update \in BOOLEAN : FrameResume(TRUE, has_update)

FrameUpdate == FrameResume(FALSE, TRUE)

\* current_view is None, or a view without update (update is optional)
FrameNoUpdate == FrameResume(FALSE, FALSE)

ClockNext ==
    \/ ClockTick
    \/ RunStart
    \/ FrameRead
    \/ FrameContinue
    \/ FrameUpdate
    \/ FrameNoUpdate

ClockSpec == Init /\ [][ClockNext]_vars

(***************************************************************************)
(* Player (player.py).  The methods are operators on the record of the     *)
(* object's attributes; times are floats, in seconds.                      *)
(***************************************************************************)
\* load_animations: found[n] is the number of frames that decode in the directory
\* of animation n, 0 when the path is missing or holds no usable file
LoadAnimations(found) ==
    IF \A n \in AnimNames : found[n] = 0
    THEN \* the placeholder, stored under 'idle'
         [n \in AnimNames |-> IF n = "idle" THEN 1 ELSE 0]
    ELSE found

\* Player.__init__
PlayerInit(found) ==
    LET frames == LoadAnimations(found) IN
    [built |-> TRUE, animation_frames |-> frames,
     current_animation |-> "idle", frame_index |-> 0, animation_timer |-> FZero,
     direction |-> <<0, 0>>, facing_right |-> TRUE,
     image |-> IF frames["idle"] > 0 THEN FrameImage("idle", 0, TRUE) ELSE FallbackImage,
     raised |-> "None", animation_speeds |-> InitialSpeeds, updates |-> 0]

\* name in self.animation_frames
HasAnimation(p, name) == name \in AnimNames /\ p.animation_frames[name] > 0

\* get_current_animation_speed
AnimationSpeed(p, name) == p.animation_speeds[name]

\* Player.set_animation_speed
SetAnimationSpeed(p, name, speed) == [p EXCEPT !.animation_speeds[name] = speed]

\* Player.set_all_animation_speeds: speed_dict gives a speed to some of the names
SetAllAnimationSpeeds(p, speed_dict) ==
    [p EXCEPT !.animation_speeds =
        [n \in AnimNames |-> IF n \in DOMAIN speed_dict THEN speed_dict[n] ELSE @[n]]]

\* Player.set_animation
SetAnimation(p, name) ==
    IF HasAnimation(p, name) /\ p.current_animation # name
    THEN [p EXCEPT !.current_animation = name, !.frame_index = 0, !.animation_timer = FZero,
                   !.image = FrameImage(name, 0, p.facing_right)]
    ELSE p

\* facing_right after move(d)
FacingAfterMove(p, d) ==
    IF d[1] > 0 THEN TRUE ELSE IF d[1] < 0 THEN FALSE ELSE p.facing_right

\* Player.move
Move(p, d) ==
    LET moved == [p EXCEPT !.direction = d]
        animated == IF d # <<0, 0>>
                    THEN [SetAnimation(moved, "walking")
                             EXCEPT !.facing_right = FacingAfterMove(p, d)]
                    ELSE SetAnimation(moved, "idle")
    IN IF p.direction = d
       THEN animated
       ELSE IF HasAnimation(animated, animated.current_animation)
       THEN [animated EXCEPT !.image = FrameImage(animated.current_animation,
                                                  animated.frame_index,
                                                  animated.facing_right)]
       ELSE \* self.animation_frames[self.current_animation] has no such key
            [animated EXCEPT !.raised = "KeyError"]

\* Player.attack
Attack(p) == SetAnimation(p, "attack")

\* the while loop of animate: <<animation_timer, frame_index>> when it ends.
\* Every subtraction is rounded, so a timer that is a whole number of periods
\* in decimal may stop one step early, just below the speed.
RECURSIVE AnimateLoop(_, _, _, _)
AnimateLoop(timer, index, speed, count) ==
    IF ~FLess(timer, speed)
    THEN AnimateLoop(FSub(timer, speed), (index + 1) % count, speed, count)
    ELSE <<timer, index>>

\* while self.animation_timer >= current_speed: the loop ends when the timer is
\* below the speed, and never once a subtraction fails to lower the timer (a
\* speed of 0 or below; a positive speed that rounding swallows)
RECURSIVE LoopEnds(_, _)
LoopEnds(timer, speed) ==
    \/ FLess(timer, speed)
    \/ /\ FLess(FSub(timer, speed), timer)
       /\ LoopEnds(FSub(timer, speed), speed)

\* Player.animate
Animate(p, d) ==
    IF ~HasAnimation(p, p.current_animation)
    THEN p
    ELSE LET speed == AnimationSpeed(p, p.current_animation)
             timer == FAdd(p.animation_timer, d)
         IN IF ~LoopEnds(timer, speed)
            THEN [p EXCEPT !.raised = "NoReturn"]
            ELSE IF ~FLess(timer, speed)
            THEN LET r == AnimateLoop(timer, p.frame_index, speed,
                                      p.animation_frames[p.current_animation])
                 IN [p EXCEPT !.animation_timer = r[1], !.frame_index = r[2],
                              !.image = FrameImage(p.current_animation, r[2],
                                                   p.facing_right)]
            ELSE [p EXCEPT !.animation_timer = timer]

\* Player.update
Update(p, d) == Animate(p, PlayerDt(d))

PlayerUsable == player.built /\ player.raised = "None"

PlayerConstruct ==
    /\ ~player.built
    /\ \E found \in [AnimNames -> 0..MaxFrames] : player' = PlayerInit(found)
    /\ UNCHANGED <<gameVars, clockVars>>

PlayerMove ==
    /\ PlayerUsable
    /\ \E d \in Directions : player' = Move(player, d)
    /\ UNCHANGED <<gameVars, clockVars>>

PlayerAttack ==
    /\ PlayerUsable
    /\ player' = Attack(player)
    /\ UNCHANGED <<gameVars, clockVars>>

PlayerSetAnimation ==
    /\ PlayerUsable
    /\ \E name \in AnimNames \cup {"jump"} : player' = SetAnimation(player, name)
    /\ UNCHANGED <<gameVars, clockVars>>

PlayerUpdate ==
    /\ PlayerUsable
    /\ player.updates < MaxUpdates
    /\ \E d \in UpdateDts : player' = [Update(player, d) EXCEPT !.updates = @ + 1]
    /\ UNCHANGED <<gameVars, clockVars>>

PlayerSetAnimationSpeed ==
    /\ PlayerUsable
    /\ \E name \in AnimNames : \E speed \in SpeedValues :
          player' = SetAnimationSpeed(player, name, speed)
    /\ UNCHANGED <<gameVars, clockVars>>

PlayerSetAllAnimationSpeeds ==
    /\ PlayerUsable
    /\ \E names \in SUBSET AnimNames : \E speed \in SpeedValues :
          player' = SetAllAnimationSpeeds(player, [n \in names |-> speed])
    /\ UNCHANGED <<gameVars, clockVars>>

PlayerNext ==
    \/ PlayerConstruct
    \/ PlayerMove
    \/ PlayerAttack
    \/ PlayerSetAnimation
    \/ PlayerUpdate
    \/ PlayerSetAnimationSpeed
    \/ PlayerSetAllAnimationSpeeds

PlayerSpec == Init /\ [][PlayerNext]_vars

(***************************************************************************)
(* Properties                                                              *)
(***************************************************************************)
Phase(ts) ==
    IF ts.active
    THEN IF ts.alpha < MaxAlpha THEN "FadingIn" ELSE "Loading"
    ELSE IF ts.alpha > 0 THEN "FadingOut" ELSE "Complete"

PhaseSuccessor(ph) ==
    CASE ph = "FadingIn" -> "Loading"
      [] ph = "Loading" -> "FadingOut"
      [] ph = "FadingOut" -> "Complete"
      [] OTHER -> "Complete"

\* the transition has completed: controller and marker cleared, GameView current
Completed ==
    /\ transition_screen.id = 0
    /\ pending_view = "None"
    /\ IsGameView(current_view)

\* C1: no two loader tasks are ever in flight together, and a loader task is
\* created only when the load_task attribute is absent, which then stays set until
\* the transition's controller is dropped: at most one creation per transition,
\* however often handle_transition runs while the overlay is active at alpha 255.
C1_SingleLoader ==
    /\ [](Len(tasks) <= 1)
    /\ [][/\ Len(tasks') > Len(tasks) => (~has_load_task /\ has_load_task' /\ Len(tasks) = 0)
          /\ (has_load_task /\ ~has_load_task') => transition_screen'.id = 0]_vars

\* handle_transition has run at least twice at alpha 255 with the loader in flight
C1_Witness ==
    /\ Len(tasks) = 1
    /\ tasks[1].pos >= 3
    /\ has_load_task
    /\ pc = "poll"
    /\ transition_screen.active
    /\ transition_screen.alpha = MaxAlpha

\* the loader has reported its last step on the held controller
LoadReported ==
    /\ transition_screen.id # 0
    /\ transition_screen.progress = TotalSteps * StepPercent
    /\ ~transition_screen.active
    /\ IsGameView(current_view)

Stopped == pc \in {"done", "crashed"}

\* C2 as stated: every game-start request is eventually followed by the
\* completed transition, unless the loop stops.
C2_EveryRequestCompletes ==
    (pending_view = "game") ~> (Completed \/ Stopped)

\* C2 amended: a game-start request whose marker is still set when the loop next
\* reaches handle_transition is eventually followed by the completed transition;
\* the step that clears its marker finds the loader's 100% reported, takes alpha
\* down to 0 and leaves the controller dropped and the GameView current.
C2_DrivenRequestCompletes ==
    /\ (pc = "poll" /\ pending_view = "game") ~> Completed
    /\ [][(pending_view = "game" /\ pending_view' = "None" /\ pc = "poll")
             => (LoadReported /\ transition_screen.alpha <= FadeStep /\ Completed')]_vars

\* a requested transition has completed after being driven through its phases
C2_Witness ==
    /\ pc = "view"
    /\ calls = 0
    /\ Completed
    /\ ~has_load_task
    /\ mouse_blocked

\* C3: a controller's phase only stays or moves to the next of FadingIn, Loading,
\* FadingOut, Complete; active is cleared only at alpha 255 by the loader's last
\* step (progress 100, a new GameView current); the controller is dropped by
\* handle_transition only when it is fading out and its alpha has come down to 0.
C3_PhaseOrder ==
    [][/\ (transition_screen.id # 0 /\ transition_screen'.id = transition_screen.id)
            => Phase(transition_screen') \in
                   {Phase(transition_screen), PhaseSuccessor(Phase(transition_screen))}
       /\ (transition_screen.active /\ transition_screen'.id = transition_screen.id
               /\ ~transition_screen'.active)
            => /\ transition_screen.alpha = MaxAlpha
               /\ transition_screen'.alpha >= MaxAlpha - FadeStep
               /\ transition_screen'.progress = 100
               /\ IsGameView(current_view')
               /\ current_view'.id # current_view.id
       /\ (transition_screen.id # 0 /\ transition_screen'.id = 0)
            => /\ ~transition_screen.active
               /\ transition_screen.progress = 100
               /\ transition_screen.alpha <= FadeStep]_vars

\* a transition has gone through all its phases: the controller was just dropped
C3_Witness ==
    /\ pc = "view"
    /\ calls = 0
    /\ Completed
    /\ ~has_load_task
    /\ current_view.layout = NoSize

\* C4: once the pending marker is cleared while a controller is still held, no
\* step changes that controller's alpha, active flag or progress, and no loader
\* task is created; switch_view("main") clears the marker.
C4_AbandonedNeverDriven ==
    [][/\ (transition_screen.id # 0 /\ pending_view = "None"
               /\ transition_screen'.id = transition_screen.id)
            => /\ transition_screen'.alpha = transition_screen.alpha
               /\ transition_screen'.active = transition_screen.active
               /\ transition_screen'.progress = transition_screen.progress
               /\ tasks' = tasks
               /\ has_load_task' = has_load_task
       /\ SwitchViewMenu("main") => pending_view' = "None"]_vars

\* the loop has passed handle_transition with an abandoned controller held, after
\* switch_view("main")
C4_Witness ==
    /\ pc = "view"
    /\ calls = 0
    /\ transition_screen.id # 0
    /\ pending_view = "None"
    /\ current_view.kind = "MainMenu"

\* C5: switch_view("main") and switch_view("settings") leave the requested menu
\* current, the pending marker empty and no transition overlay held.
C5_MenuClearsTransition ==
    [][(SwitchViewMenu("main") \/ SwitchViewMenu("settings"))
          => /\ current_view'.kind \in {"MainMenu", "Settings"}
             /\ pending_view' = "None"
             /\ transition_screen'.id = 0]_vars

\* C6: a view is always current, and it is a MainMenu, a Settings or a GameView.
C6_OneCurrentView ==
    /\ current_view.id \in ViewIds
    /\ current_view.kind \in {"MainMenu", "Settings", "GameView"}
    /\ current_view.ingame => current_view.kind = "Settings"

\* return_to_game has been called from embedded settings that did not replace a
\* GameView, in fullscreen
C6_Witness ==
    /\ restoreOf.id # 0
    /\ ~IsGameView(restoreOf)
    /\ fullscreen
    /\ pc = "view"

\* C7 as stated: after switch_view("ingame_settings") followed at once by
\* return_to_game(), the view that was current before the embed is current again
\* and no transition is pending.
C7_RoundTripAnyView ==
    restoreOf.id # 0
        => /\ current_view.id = restoreOf.id
           /\ current_view.kind = restoreOf.kind
           /\ pending_view = "None"

\* C7 amended: the same, when the view that was current before the embed is a
\* GameView.
C7_RoundTripGameView ==
    (restoreOf.id # 0 /\ IsGameView(restoreOf))
        => /\ current_view.id = restoreOf.id
           /\ IsGameView(current_view)
           /\ pending_view = "None"

\* return_to_game has just restored the GameView that the embed replaced
C7_Witness ==
    /\ pc = "view"
    /\ handler.ingame
    /\ restoreOf.id # 0
    /\ IsGameView(restoreOf)
    /\ IsGameView(current_view)
    /\ saved_game_view.id = current_view.id

\* C8: leaving fullscreen with no windowed resize since gives back the size held
\* when fullscreen was entered, not the fullscreen resolution.
C8_FullscreenRoundTrip ==
    (~fullscreen /\ sizeBeforeFs # NoSize) => <<WIDTH, HEIGHT>> = sizeBeforeFs

\* a round trip from a size other than the initial one has been made
C8_Witness ==
    /\ ~fullscreen
    /\ sizeBeforeFs = <<1024, 768>>
    /\ windowed_size = <<1024, 768>>

\* C9: an iteration that polls a VIDEORESIZE while fullscreen is on leaves WIDTH,
\* HEIGHT and windowed_size unchanged and calls handle_resize on no view.
C9_ResizeIgnoredInFullscreen ==
    [][\A es \in EventLists : \A y \in 0..Len(tasks) :
          (fullscreen /\ HasResize(es) /\ IterationWith(y, es))
             => /\ WIDTH' = WIDTH
                /\ HEIGHT' = HEIGHT
                /\ windowed_size' = windowed_size
                /\ y = 0 => current_view' = current_view]_vars

\* a VIDEORESIZE has been processed in fullscreen
C9_Witness ==
    /\ pc = "view"
    /\ calls = 0
    /\ fullscreen
    /\ HasResize(events)

\* C10: a VIDEORESIZE polled in windowed mode in an iteration that drives a
\* transition is applied by the end of that iteration.
C10_ResizeDuringTransition ==
    [][\A es \in EventLists : \A y \in 0..Len(tasks) :
          (IterationWith(y, es) /\ pc' = "poll" /\ ~fullscreen /\ HasResize(es))
             => /\ <<WIDTH', HEIGHT'>> = LastResize(es)
                /\ windowed_size' = LastResize(es)
                /\ current_view'.layout = LastResize(es)]_vars

HasQuit(es) == \E i \in 1..Len(es) : es[i].type = "QUIT"

\* C11: every iteration that polls a QUIT, whatever the transition is doing,
\* leaves the loop's running flag cleared, so that the loop stops and the display
\* is released; no polled QUIT is without effect.
C11_QuitStopsLoop ==
    /\ [][\A es \in EventLists : \A y \in 0..Len(tasks) :
              (IterationWith(y, es) /\ HasQuit(es)) => ~running']_vars
    /\ [][(pc = "view" /\ ~running /\ EndIteration) => (pc' = "done" /\ ~display_open')]_vars

\* C12: the size of the latest handle_resize call on the current view is the
\* window size: every change of the current view and every applied resize or
\* fullscreen toggle ends with handle_resize(WIDTH, HEIGHT) on the view that is
\* current, so no view is drawn with a layout made for another size.
C12_LayoutMatchesWindow ==
    current_view.id # 0 => current_view.layout = <<WIDTH, HEIGHT>>

\* C13: every dt the loop computes, and every dt it passes to a view's update, is
\* at least the floor, also when no time has gone by since the previous read of
\* the clock; it equals the time gone by since the previous read whenever that
\* is at least the floor; Player.update's own floor changes nothing.
C13_DtFloor ==
    /\ dt # NoDt => /\ ~FLess(dt, Seconds(DtFloor))
                    /\ frame_elapsed >= DtFloor => dt = Seconds(frame_elapsed)
                    /\ frame_elapsed < DtFloor => dt = Seconds(DtFloor)
    /\ update_dt # NoDt => /\ update_dt = dt
                           /\ PlayerDt(update_dt) = update_dt

\* |a|
FAbs(a) == [a EXCEPT !.neg = FALSE]

\* 2^-20 s, a little under a microsecond
DtTolerance == [neg |-> FALSE, mag |-> <<1, 0, 0>>]

\* C13, amended: every dt the loop computes, and every dt it passes to a view's
\* update, is at least the floor, also when no time has gone by since the
\* previous read of the clock; it is the float difference of the two reads in
\* seconds, raised to the floor, which is within a microsecond of the time gone
\* by between them but not always equal to it; Player.update's own floor
\* changes nothing.
C13_DtFloorRounded ==
    /\ dt # NoDt =>
          /\ ~FLess(dt, Seconds(DtFloor))
          /\ dt = FMax(FSub(CurrentTime(ticks - since_frame),
                            CurrentTime(ticks - since_frame - frame_elapsed)),
                       Seconds(DtFloor))
          /\ frame_elapsed >= DtFloor
                => FLess(FAbs(FSub(dt, Seconds(frame_elapsed))), DtTolerance)
          /\ frame_elapsed < DtFloor => dt = Seconds(DtFloor)
    /\ update_dt # NoDt => /\ update_dt = dt
                           /\ PlayerDt(update_dt) = update_dt

\* update was called, after time went by while run was suspended, with a dt
\* that is not the float of the milliseconds between the two reads (0.009 -
\* 0.007 is not 0.002)
C13_Witness ==
    /\ clock_pc = "read"
    /\ update_dt = dt
    /\ dt # NoDt
    /\ frame_elapsed >= DtFloor
    /\ dt # Seconds(frame_elapsed)
    /\ since_frame > 0

\* C14: switch_view("game") keeps the current view (the same object, of the same
\* kind), creates a new controller at alpha 0 with progress 0, sets the pending
\* marker to "game" and creates no loader task; a GameView the Game did not hold
\* before becomes current only in the step in which a loader task ends after its
\* fifth pause, with progress 100 reported.  (return_to_game makes current again
\* the saved GameView, which a loader installed earlier.)
C14_GameViewOnlyByLoader ==
    [][/\ SwitchViewGame
            => /\ current_view'.id = current_view.id
               /\ current_view'.kind = current_view.kind
               /\ current_view'.ingame = current_view.ingame
               /\ pending_view' = "game"
               /\ transition_screen'.id \notin {0, transition_screen.id}
               /\ transition_screen'.alpha = 0
               /\ transition_screen'.active
               /\ transition_screen'.progress = 0
               /\ tasks' = tasks
       /\ (IsGameView(current_view') /\ current_view'.id # current_view.id)
            => \/ /\ current_view'.id # saved_game_view.id
                  /\ pc = "poll"
                  /\ Len(tasks) = 1
                  /\ tasks[1].pos = TotalSteps
                  /\ tasks' = <<>>
                  /\ transition_screen'.progress = TotalSteps * StepPercent
               \/ /\ ReturnToGame
                  /\ IsGameView(saved_game_view)
                  /\ current_view'.id = saved_game_view.id]_vars

\* switch_view("game") has been called while a GameView, installed by the loader
\* of an earlier transition, is current
C14_Witness ==
    /\ pc = "view"
    /\ calls = 1
    /\ pending_view = "game"
    /\ transition_screen.alpha = 0
    /\ transition_screen.active
    /\ IsGameView(current_view)
    /\ tasks = <<>>

\* C15: an iteration that starts with a game request pending has a controller to
\* drive and either drives it (one fade tick, or the hold at alpha 255 while
\* loading) and ends with continue, with no handle_events and no update of the
\* current view, or is the iteration in which the transition completes, the only
\* one after which the view handles events again; no view is handling events when
\* an iteration starts.
C15_TransitionPreemptsView ==
    /\ [](pc = "poll" => (handler = NoHandler /\ calls = 0))
    /\ [][(pc = "poll" /\ pending_view = "game")
            => /\ transition_screen.id # 0
               /\ \/ /\ pc' = "poll"
                     /\ handler' = NoHandler
                     /\ pending_view' = "game"
                     /\ transition_screen'.id = transition_screen.id
                     /\ \/ transition_screen'.alpha # transition_screen.alpha
                        \/ Phase(transition_screen') = "Loading"
                  \/ /\ pc' = "view"
                     /\ handler'.kind = "GameView"
                     /\ Completed']_vars

\* the loop is between two iterations that drive a fade-out: the GameView is
\* current and has not handled an event yet
C15_Witness ==
    /\ pc = "poll"
    /\ pending_view = "game"
    /\ ~transition_screen.active
    /\ transition_screen.alpha = 100
    /\ IsGameView(current_view)
    /\ handler = NoHandler

\* C16: whichever animations fail to load, no method of the Player raises, and
\* once constructed the player has an image.
C16_AssetErrorsNotFatal ==
    /\ player.raised \in {"None", "NoReturn"}
    /\ player.built => player.image # NoImage

\* C17: while a controller is held its alpha is within 0..255; from one step to
\* the next of the same controller alpha does not decrease while it is active,
\* stays 255 with the controller still loading when a tick arrives at 255 (no
\* second loader is created), does not increase once it is fading out, and the
\* controller neither becomes active again nor returns to fading in.
C17_AlphaMonotone ==
    /\ [](transition_screen.id # 0 => transition_screen.alpha \in 0..MaxAlpha)
    /\ [][(transition_screen.id # 0 /\ transition_screen'.id = transition_screen.id)
            => /\ (transition_screen.active /\ transition_screen'.active)
                    => transition_screen'.alpha >= transition_screen.alpha
               /\ (Phase(transition_screen) = "Loading" /\ transition_screen'.active)
                    => /\ transition_screen'.alpha = MaxAlpha
                       /\ Len(tasks') = 1
                       /\ has_load_task => Len(tasks') <= Len(tasks)
               /\ ~transition_screen.active
                    => /\ ~transition_screen'.active
                       /\ transition_screen'.alpha <= transition_screen.alpha
               /\ Phase(transition_screen) # "FadingIn"
                    => Phase(transition_screen') # "FadingIn"]_vars

\* ticks have been delivered at alpha 255 all through Loading: the loader is
\* about to report its last step
C17_Witness ==
    /\ pc = "poll"
    /\ Phase(transition_screen) = "Loading"
    /\ transition_screen.progress = 80
    /\ Len(tasks) = 1
    /\ tasks[1].pos = TotalSteps

\* C18: a controller that is loading has exactly one loader task in flight, its
\* own; the task is created in the step in which the controller's alpha reaches
\* 255, also for a controller that follows a completed or an abandoned one; every
\* task in flight belongs to the controller that is held, and a controller's
\* progress and active flag change only in a step that resumes its own loader.
C18_OneLoaderPerTransition ==
    /\ [](/\ \A i \in 1..Len(tasks) : tasks[i].owner = transition_screen.id
          /\ (transition_screen.id # 0 /\ Phase(transition_screen) = "Loading")
                => (Len(tasks) = 1 /\ has_load_task))
    /\ [][/\ (transition_screen'.id # 0 /\ Phase(transition_screen') = "Loading"
                  /\ ~(transition_screen.id = transition_screen'.id
                          /\ Phase(transition_screen) = "Loading"))
               => /\ tasks = <<>>
                  /\ ~has_load_task
                  /\ tasks' = <<NewTask(transition_screen'.id)>>
          /\ (transition_screen.id # 0 /\ transition_screen'.id = transition_screen.id
                  /\ \/ transition_screen'.progress # transition_screen.progress
                     \/ transition_screen'.active # transition_screen.active)
               => /\ Len(tasks) = 1
                  /\ tasks[1].owner = transition_screen.id
                  /\ tasks[1].pos >= 1
                  /\ \/ tasks' = <<>>
                     \/ tasks' = <<[tasks[1] EXCEPT !.pos = tasks[1].pos + 1]>>]_vars

\* a second transition is loading: the GameView of an earlier, completed
\* transition is current and the loader of this transition has reported 40%
C18_Witness ==
    /\ pc = "poll"
    /\ IsGameView(current_view)
    /\ Phase(transition_screen) = "Loading"
    /\ transition_screen.progress = 40
    /\ Len(tasks) = 1
    /\ tasks[1].owner = transition_screen.id

\* C19: a loader task is resumed TotalSteps times after its first run; the first
\* run, up to the first pause, changes nothing; the k-th resumption after a pause
\* finds progress at 20 * (k - 1), sets it to 20 * k and renders the overlay with
\* that value before it pauses again or ends; only the fifth constructs the
\* GameView, with progress at 100, and ends the task; a controller's progress
\* never decreases.
C19_LoaderSteps ==
    [][/\ \A y \in 1..Len(tasks) :
            Iteration(y)
              => \E r \in {LoaderResume(AtAwait, y, saved_game_view)} :
                 \E k \in {tasks[y].pos} :
                   /\ k \in 0..TotalSteps
                   /\ k = 0 => /\ r.ts = transition_screen
                               /\ r.shown = NotShown
                               /\ r.view = current_view
                               /\ tasks'[y].pos = 1
                   /\ k >= 1 => /\ transition_screen.progress = StepPercent * (k - 1)
                                /\ r.ts.progress = StepPercent * k
                                /\ r.shown = StepPercent * k
                                /\ transition_screen'.progress = StepPercent * k
                   /\ k < TotalSteps => /\ current_view' = current_view
                                        /\ Len(tasks') = Len(tasks)
                                        /\ tasks'[y].pos = k + 1
                   /\ k = TotalSteps => /\ IsGameView(current_view')
                                        /\ current_view'.id # current_view.id
                                        /\ transition_screen'.progress = 100
                                        /\ tasks' = <<>>
       /\ (transition_screen.id # 0 /\ transition_screen'.id = transition_screen.id)
            => transition_screen'.progress
                  \in {transition_screen.progress, transition_screen.progress + StepPercent}]_vars

\* the loader has made its fifth step: 100% is reported, the new GameView is
\* current and the fade-out has begun
C19_Witness ==
    /\ pc = "poll"
    /\ transition_screen.progress = 100
    /\ ~transition_screen.active
    /\ transition_screen.alpha = MaxAlpha - FadeStep
    /\ IsGameView(current_view)
    /\ tasks = <<>>
    /\ has_load_task

\* C20: a controller that is held has the window size as its overlay geometry:
\* every applied resize and every fullscreen toggle reaches it.
C20_OverlayMatchesWindow ==
    transition_screen.id # 0
        => <<transition_screen.width, transition_screen.height>> = <<WIDTH, HEIGHT>>

\* C21: the input mode matches the current view: with a MainMenu or a Settings
\* view current the cursor is visible and the mouse events are allowed, with a
\* GameView current the cursor is hidden and the mouse events are blocked.
C21_InputModeMatchesView ==
    /\ current_view.kind \in {"MainMenu", "Settings"}
          => (mouse_visible /\ ~mouse_blocked)
    /\ IsGameView(current_view) => (~mouse_visible /\ mouse_blocked)

\* return_to_game has made the GameView current again, out of the embedded
\* settings that showed the cursor
C21_Witness ==
    /\ pc = "view"
    /\ handler.kind = "Settings"
    /\ handler.ingame
    /\ IsGameView(current_view)
    /\ ~mouse_visible
    /\ mouse_blocked
    /\ transition_screen.id = 0

\* C22: with fullscreen off windowed_size is (WIDTH, HEIGHT); with fullscreen on
\* windowed_size is the size the window had when fullscreen was entered, and no
\* step that stays in fullscreen changes it.
C22_WindowedSize ==
    /\ [](~fullscreen => windowed_size = <<WIDTH, HEIGHT>>)
    /\ [](fullscreen => windowed_size = sizeBeforeFs)
    /\ [][(fullscreen /\ fullscreen') => windowed_size' = windowed_size]_vars

\* a resize has arrived in fullscreen, entered from a window that had been resized
C22_Witness ==
    /\ pc = "view"
    /\ fullscreen
    /\ HasResize(events)
    /\ LastResize(events) # windowed_size
    /\ windowed_size = <<1024, 768>>

\* C23: when return_to_game makes a GameView current, the view it replaces is the
\* embedded Settings view, and the GameView is the one that this Settings view
\* replaced when switch_view("ingame_settings") built it.
C23_NoStaleGameView ==
    [][(ReturnToGame /\ IsGameView(current_view') /\ current_view'.id # current_view.id)
          => /\ current_view.kind = "Settings"
             /\ current_view.ingame
             /\ IsGameView(beforeEmbed)
             /\ beforeEmbed.id = current_view'.id]_vars

\* C24: every update call returns from animate, whatever speeds were set before
\* it, and when the current animation is loaded it leaves frame_index within the
\* frames of that animation and animation_timer below the animation's speed.
C24_AnimateTerminates ==
    [][PlayerUpdate
          => /\ player'.raised # "NoReturn"
             /\ HasAnimation(player, player.current_animation)
                   => /\ player'.frame_index
                            \in 0..(player.animation_frames[player.current_animation] - 1)
                      /\ FLess(player'.animation_timer,
                               AnimationSpeed(player, player.current_animation))]_vars
====
